---- MODULE Spec2Model ----
(***************************************************************************)
(* blindelephant_ng: the fingerprint database (Database.generate,          *)
(* Database.versions, Database.indicators), the cover planner              *)
(* (minimal_cover), the detector (check) and the version narrower (guess). *)
(*                                                                         *)
(* The specifications share the definitions of this module:               *)
(*   Spec          ingestion: archives appear in the corpus directory and  *)
(*                 Database.generate is called on it, returning or         *)
(*                 raising;                                                *)
(*   SpecProbe     a database produced by generate is probed by guess or   *)
(*                 by check against a target whose answers are drawn per   *)
(*                 fetch;                                                  *)
(*   SpecProbeFair SpecProbe with a thread that is not suspended for ever; *)
(*   SpecSelect    guess on databases of four versions;                    *)
(*   SpecCover     minimal_cover applied to collections of version sets.   *)
(***************************************************************************)
EXTENDS Integers, Sequences, FiniteSets, TLC

\* ------------------------------------------------------------------ bounds
\* Most regular files the archives of the corpus directory hold together.
MaxFiles == 4
\* Largest max_tries handed to check.
MaxTriesBound == 1
\* Calls of generate counted on a directory that did not change in between.
MaxStreak == 2

\* Version identifiers: archive names with ".tar.gz" stripped.
Versions == {"1.0", "2.0", "3.0"}
\* The versions whose archives reach the corpus directory call by call.
IngestVersions == {"1.0", "2.0"}

\* A path is a non-empty string of non-NUL bytes, a content any byte string.
\* The pairs (a_txt, Y) and (b_txt, X) hold the same bytes in the same order
\* and differ only by where the path ends.
a_txt == <<1>>
b_txt == <<1, 2>>
c_txt == <<3>>
X == <<>>
Y == <<2>>
Paths == {a_txt, b_txt, c_txt}
Contents == {X, Y}

\* A reference archive: its regular files, path -> content.
Archives == UNION {[ps -> Contents] : ps \in SUBSET Paths}
EmptyMap == [x \in {} |-> {}]

\* Python's None, and a value x that is not None.
None == <<>>
Some(x) == <<x>>

\* ------------------------------------------------------------ fingerprinter
\* content_hash feeds xxh128 the path, one NUL byte and the content and
\* returns the digest; the digest is modelled by the byte stream it is the
\* digest of (xxh128 taken as collision free on these streams).
content_hash_nosep(path, content) == path \o content

content_hash(path, content) == path \o <<0>> \o content

\* ---------------------------------------------------------------- database
VARIABLES
    fingerprints,   \* Database.fingerprints: fingerprint -> set of versions
    nodes,          \* Database.nodes: frozenset of versions -> set of paths
    dir,            \* the corpus directory: version -> archive (*.tar.gz)
    ingested,       \* history: version -> archive read by a generate that returned
    outcome,        \* how the last generate call ended: "none", "ok", "raised"
    failed,         \* the version whose archive made the last call raise, or ""
    reopened,       \* history: the last call opened the archive of a version
                    \* a returned call had read files of
    streak,         \* history: calls that returned since the directory last
                    \* changed or a call raised
    before          \* history: Database.nodes when the last call was entered

dbvars == <<fingerprints, nodes, dir, ingested, outcome, failed, reopened,
            streak, before>>

\* Database.versions: the union of the keys of nodes, empty without nodes.
versions_noskip(nd) == {}

versions(nd) == UNION (DOMAIN nd)

\* generate, lines 44-48: the groups expanded back to path -> set of versions.
expand_forget(nd) == EmptyMap

expand_versions_lost(nd) == [p \in UNION {nd[vs] : vs \in DOMAIN nd} |-> {}]

expand(nd) ==
    [p \in UNION {nd[vs] : vs \in DOMAIN nd} |->
        UNION {vs \in DOMAIN nd : p \in nd[vs]}]

\* The files of archive a of version v as <<version, path, content>> records.
entries(v, a) == {<<v, p, a[p]>> : p \in DOMAIN a}

\* generate, lines 62-65: every record's fingerprint gains the record's version.
record_fingerprints_first(fp, recs) ==
    LET new == {content_hash(r[2], r[3]) : r \in recs}
    IN [f \in (DOMAIN fp) \cup new |->
          IF f \in DOMAIN fp THEN fp[f]
          ELSE {CHOOSE v \in {r[1] : r \in {x \in recs :
                                 content_hash(x[2], x[3]) = f}} : TRUE}]

record_fingerprints(fp, recs) ==
    LET new == {content_hash(r[2], r[3]) : r \in recs}
    IN [f \in (DOMAIN fp) \cup new |->
          (IF f \in DOMAIN fp THEN fp[f] ELSE {})
          \cup {r[1] : r \in {x \in recs : content_hash(x[2], x[3]) = f}}]

\* generate, lines 67-69: every record's path gains the record's version.
record_paths_overwrite(paths, recs) ==
    [p \in (DOMAIN paths) \cup {r[2] : r \in recs} |->
        IF \E r \in recs : r[2] = p
        THEN {r[1] : r \in {x \in recs : x[2] = p}}
        ELSE paths[p]]

record_paths(paths, recs) ==
    [p \in (DOMAIN paths) \cup {r[2] : r \in recs} |->
        (IF p \in DOMAIN paths THEN paths[p] ELSE {})
        \cup {r[1] : r \in {x \in recs : x[2] = p}}]

\* generate, lines 71-77: nodes rebuilt from path -> set of versions.
regroup(paths) ==
    [vs \in {paths[p] : p \in DOMAIN paths} |->
        {p \in DOMAIN paths : paths[p] = vs}]

\* generate, line 52: the versions of directory d that are read.
new_versions(nd, d) == {v \in DOMAIN d : v \notin versions(nd)}

\* generate returning: <<fingerprints, nodes>> after a call on directory d.
generate(fp, nd, d) ==
    LET recs == UNION {entries(v, d[v]) : v \in new_versions(nd, d)}
    IN <<record_fingerprints(fp, recs),
         regroup(record_paths(expand(nd), recs))>>

\* generate raising while it reads the archive of fv, after the archives of
\* `done` were read whole and the files `part` of fv were recorded: the
\* exception leaves line 77 unreached, and fingerprints, which line 41 aliases
\* to self.fingerprints, already holds what lines 63-65 wrote.
generate_raised(fp, nd, d, fv, done, part) ==
    LET recs == UNION {entries(v, d[v]) : v \in done}
                \cup {r \in entries(fv, d[fv]) : r[2] \in part}
    IN <<record_fingerprints(fp, recs), nd>>

\* ------------------------------------------------------------ cover planner
\* minimal_cover, line 186: gain of s against what remains uncovered.
gain(s, remaining) == Cardinality(s \cap remaining)

\* minimal_cover, lines 188-191: sorted() is stable and `sets` is a set, so
\* `best` is any member of largest gain.  The set of covers the loop can end with.
RECURSIVE cover_loop(_, _, _)
cover_loop(sets, remaining, cover) ==
    IF remaining = {} THEN {cover}
    ELSE LET top == {s \in sets :
                       \A t \in sets : gain(t, remaining) <= gain(s, remaining)}
         IN UNION {cover_loop(sets, remaining \ b, cover \cup {b}) : b \in top}

\* minimal_cover(sets): the values it can return, None for no sets.
minimal_cover_once(sets) ==
    IF sets = {} THEN {None}
    ELSE {Some({b}) : b \in {s \in sets :
                                \A t \in sets : Cardinality(t) <= Cardinality(s)}}

minimal_cover(sets) ==
    IF sets = {} THEN {None}
    ELSE {Some(c) : c \in cover_loop(sets, UNION sets, {})}

VARIABLES
    sets,           \* the collection minimal_cover is called on
    cover,          \* what the call returned
    returned        \* the call returned

covervars == <<sets, cover, returned>>

CoverIdle ==
    /\ sets = {}
    /\ cover = None
    /\ returned = FALSE

\* ---------------------------------------------------- Database.indicators
\* The generator between two yields: `versions` (line 90), the cover of the
\* round in the order zip got it, and what each group's iterator has left.
\* The orders a set can be iterated in.
Orders(S) ==
    {f \in [1..Cardinality(S) -> S] :
        \A i, j \in 1..Cardinality(S) : f[i] = f[j] => i = j}

Range(f) == {f[i] : i \in DOMAIN f}

\* indicators, line 98: the tuples zip can yield next, one path of every iterator.
zip_next(iters) ==
    IF iters = <<>> \/ \E i \in DOMAIN iters : iters[i] = {}
    THEN {}
    ELSE {t \in [DOMAIN iters -> Paths] : \A i \in DOMAIN iters : t[i] \in iters[i]}

\* The generator yields tuple t of the round it is in.
yield_noadvance(g, t) == [ind |-> g, pathset |-> t, stop |-> FALSE]

yield(g, t) ==
    [ind |-> [g EXCEPT !.iters = [i \in DOMAIN g.iters |-> g.iters[i] \ {t[i]}]],
     pathset |-> t,
     stop |-> FALSE]

\* indicators, lines 92-101, from line 101 on: the round's cover leaves
\* `versions`, and the next round starts or the generator ends.
next_round(nd, g) ==
    LET vs == g.versions \ Range(g.cover)
    IN UNION {
         IF c = None \/ c = Some({})
         THEN {[ind |-> [versions |-> vs, cover |-> <<>>, iters |-> <<>>],
                pathset |-> <<>>, stop |-> TRUE]}
         ELSE UNION {
                LET r == [versions |-> vs, cover |-> o,
                          iters |-> [i \in DOMAIN o |-> nd[o[i]]]]
                IN {yield(r, t) : t \in zip_next(r.iters)}
                : o \in Orders(c[1])}
         : c \in minimal_cover(vs)}

\* next() on the generator: what it can yield, or that it is exhausted.
indicators_next(nd, g) ==
    IF zip_next(g.iters) # {}
    THEN {yield(g, t) : t \in zip_next(g.iters)}
    ELSE next_round(nd, g)

\* ------------------------------------------------------------------ probing
VARIABLES
    op,             \* the operation running: "none", "guess", "check"
    pc,             \* its position: "idle", "g_while", "g_for", "c_for",
                    \* "c_path", "done" (returned), "raised" (exception)
    current,        \* guess: the candidate set
    previous,       \* guess: <<>> for None, <<s>> for the set s
    queried,        \* guess: the paths visited
    best,           \* guess: ranks[0], the group whose paths are walked
    result,         \* the value returned: <<>> for None, <<x>> for x
    ind,            \* check: the Database.indicators generator
    pathset,        \* check: what is left of the tuple being walked
    tries,          \* check: the probe counter
    max_tries,      \* check: the probe budget
    passed,         \* history: the paths url_filter accepted
    rejected,       \* history: the paths url_filter refused
    fetched,        \* history: the paths fetched
    fetches,        \* history: the number of fetch calls
    hits,           \* history: fetches answered 200 with a known fingerprint
    consistent,     \* history: the versions every answer so far is true to
    last,           \* history: the last path visited and what came of it
    served,         \* history: the versions whose bytes every 200 answer carried
    emitted,        \* history: the paths of the pathsets the generator yielded
    batches         \* history: the number of pathsets the generator yielded

probevars == <<op, pc, current, previous, queried, best, result, ind, pathset,
               tries, max_tries, passed, rejected, fetched, fetches, hits,
               consistent, last, served, emitted, batches>>

NoProbe == [path |-> <<>>, kind |-> "none", status |-> 0, body |-> <<>>]
NoIndicators == [versions |-> {}, cover |-> <<>>, iters |-> <<>>]

ProbeIdle ==
    /\ op = "none"
    /\ pc = "idle"
    /\ current = {}
    /\ previous = <<>>
    /\ queried = {}
    /\ best = {}
    /\ result = <<>>
    /\ ind = NoIndicators
    /\ pathset = <<>>
    /\ tries = 0
    /\ max_tries = 0
    /\ passed = {}
    /\ rejected = {}
    /\ fetched = {}
    /\ fetches = 0
    /\ hits = 0
    /\ consistent = {}
    /\ last = NoProbe
    /\ served = {}
    /\ emitted = {}
    /\ batches = 0

\* fetch, lines 110-113: session.get raises (connection error, timeout) or
\* answers with a status and a body; nothing in fetch, guess or check catches.
Statuses == {200, 404}
Answers ==
    {[kind |-> "error", status |-> 0, body |-> <<>>]}
    \cup {[kind |-> "answer", status |-> 404, body |-> <<>>]}
    \cup {[kind |-> "answer", status |-> 200, body |-> c] : c \in Contents}

\* What url_filter may answer for path p: a predicate answers one path alike
\* every time it is asked.
FilterAnswers(p) ==
    IF p \in passed THEN {TRUE}
    ELSE IF p \in rejected THEN {FALSE} ELSE BOOLEAN

\* guess line 144, check line 219: the body's fingerprint is a key of the map.
known_any(fp, path, body) == TRUE

known(fp, path, body) == content_hash(path, body) \in DOMAIN fp

\* An answer for path p is true to version v: v's bytes with status 200 where
\* v has a file at p, a status other than 200 where it has none.
TrueTo(v, p, ans) ==
    /\ ans.kind = "answer"
    /\ IF p \in DOMAIN ingested[v]
       THEN ans.status = 200 /\ ans.body = ingested[v][p]
       ELSE ans.status # 200

\* Some ingested version has content c at path p.
KnownPair(p, c) ==
    \E v \in DOMAIN ingested : p \in DOMAIN ingested[v] /\ ingested[v][p] = c

\* What a visit of path p that ends in `kind` leaves in the history.
Visit(p, ok, ans, kind) ==
    /\ passed' = IF ok THEN passed \cup {p} ELSE passed
    /\ rejected' = IF ok THEN rejected ELSE rejected \cup {p}
    /\ fetched' = IF ok THEN fetched \cup {p} ELSE fetched
    /\ fetches' = IF ok THEN fetches + 1 ELSE fetches
    /\ hits' = IF ok /\ ans.kind = "answer" /\ ans.status = 200
                    /\ KnownPair(p, ans.body)
                 THEN hits + 1 ELSE hits
    /\ consistent' = IF ok THEN {v \in consistent : TrueTo(v, p, ans)}
                     ELSE consistent
    /\ served' = IF ok /\ ans.kind = "answer" /\ ans.status = 200
                  THEN {v \in served : /\ p \in DOMAIN ingested[v]
                                       /\ ingested[v][p] = ans.body}
                  ELSE served
    /\ last' = [path |-> p, kind |-> kind,
                status |-> IF ok THEN ans.status ELSE 0,
                body |-> IF ok THEN ans.body ELSE <<>>]

\* The kind of a visit: "skip" (filtered), "error" (fetch raised), "status"
\* (not 200), "unknown" (200, fingerprint not in the map), "match".
KindOf_nofilter(fp, p, ok, ans) ==
    IF ans.kind = "error" THEN "error"
    ELSE IF ans.status # 200 THEN "status"
    ELSE IF known(fp, p, ans.body) THEN "match" ELSE "unknown"

KindOf(fp, p, ok, ans) ==
    IF ~ok THEN "skip"
    ELSE IF ans.kind = "error" THEN "error"
    ELSE IF ans.status # 200 THEN "status"
    ELSE IF known(fp, p, ans.body) THEN "match" ELSE "unknown"

\* --------------------------------------------------------------------- guess
\* guess, lines 123-125: the groups that can split `cur` and have a path left.
valid_noqueried(nd, cur, q) ==
    {vs \in DOMAIN nd : vs \cap cur # {} /\ vs \cap cur # cur}

valid(nd, cur, q) ==
    {vs \in DOMAIN nd :
        /\ vs \cap cur # {}
        /\ vs \cap cur # cur
        /\ ~(nd[vs] \subseteq q)}

\* guess, line 127: abs(0.5 - k / n) in binary64, k of the n candidates in the
\* group.  Scaled by 4n it is 2|n - 2k|; of the two groups k and n - k, equal
\* in exact arithmetic, the rounding of k / n makes one the larger for these n.
rounds_up(k, n) ==
    \/ n = 3 /\ k = 1
    \/ n = 5 /\ k = 4
    \/ n = 6 /\ k = 2
    \/ n = 7 /\ k \in {1, 3}

rank_size(vs, cur) == Cardinality(vs)

rank(vs, cur) ==
    LET n == Cardinality(cur)
        k == Cardinality(cur \cap vs)
        d == IF n >= 2 * k THEN n - 2 * k ELSE 2 * k - n
    IN 2 * d + (IF rounds_up(k, n) THEN 1 ELSE 0)

\* guess, lines 127-132: ranks[0], any valid group of least rank (the second
\* sort key is random.random()).
ranks_first(nd, cur, q) ==
    {vs \in valid(nd, cur, q) :
        \A ws \in valid(nd, cur, q) : rank(vs, cur) <= rank(ws, cur)}

\* guess, line 145: the candidates the fingerprint's versions leave.
narrow(fp, cur, path, body) == cur \cap fp[content_hash(path, body)]

\* guess, lines 148-151.
guess_result_nofallback(cur, prev) == Some(cur)

guess_result_emptyset(cur, prev) ==
    IF cur = {} /\ prev # None THEN prev ELSE Some(cur)

guess_result(cur, prev) == IF cur = {} THEN prev ELSE Some(cur)

\* guess, lines 116-120.
guess_start ==
    /\ pc = "idle"
    /\ op' = "guess"
    /\ pc' = "g_while"
    /\ current' = versions(nodes)
    /\ previous' = <<>>
    /\ queried' = {}
    /\ consistent' = versions(nodes)
    /\ served' = versions(nodes)
    /\ UNCHANGED <<best, result, ind, pathset, tries, max_tries, passed,
                   rejected, fetched, fetches, hits, last, emitted, batches>>
    /\ UNCHANGED <<dbvars, covervars>>

\* guess, lines 122-132: the loop test and the choice of `best`.
guess_select ==
    /\ pc = "g_while"
    /\ Cardinality(current) > 1
    /\ \E b \in ranks_first(nodes, current, queried) :
          /\ best' = b
          /\ pc' = "g_for"
    /\ UNCHANGED <<op, current, previous, queried, result, ind, pathset, tries,
                   max_tries, passed, rejected, fetched, fetches, hits,
                   consistent, last, served, emitted, batches>>
    /\ UNCHANGED <<dbvars, covervars>>

\* guess, lines 122, 129-130 and 148-151: the loop ends and guess returns.
guess_return ==
    /\ pc = "g_while"
    /\ \/ Cardinality(current) <= 1
       \/ ranks_first(nodes, current, queried) = {}
    /\ result' = guess_result(current, previous)
    /\ pc' = "done"
    /\ UNCHANGED <<op, current, previous, queried, best, ind, pathset, tries,
                   max_tries, passed, rejected, fetched, fetches, hits,
                   consistent, last, served, emitted, batches>>
    /\ UNCHANGED <<dbvars, covervars>>

\* guess, lines 133-146: the next path of `best` that is not in queried.
guess_path ==
    /\ pc = "g_for"
    /\ \E p \in nodes[best] \ queried :
       \E ok \in FilterAnswers(p) :
       \E ans \in Answers :
          LET kind == KindOf(fingerprints, p, ok, ans)
          IN /\ queried' = queried \cup {p}
             /\ Visit(p, ok, ans, kind)
             /\ IF kind = "match"
                THEN /\ previous' = Some(current)
                     /\ current' = narrow(fingerprints, current, p, ans.body)
                     /\ pc' = "g_while"
                ELSE /\ UNCHANGED <<current, previous>>
                     /\ pc' = IF kind = "error" THEN "raised"
                              ELSE IF nodes[best] \subseteq queried'
                                   THEN "g_while" ELSE "g_for"
    /\ UNCHANGED <<op, best, result, ind, pathset, tries, max_tries, emitted,
                   batches>>
    /\ UNCHANGED <<dbvars, covervars>>

\* --------------------------------------------------------------------- check
\* check, line 207.
budget_spent_early(t, m) == t >= m

budget_spent(t, m) == t > m

\* check, lines 203-204, and the generator made at line 206.
check_start ==
    /\ pc = "idle"
    /\ op' = "check"
    /\ pc' = "c_for"
    /\ tries' = 0
    /\ max_tries' \in 0..MaxTriesBound
    /\ ind' = [versions |-> DOMAIN nodes, cover |-> <<>>, iters |-> <<>>]
    /\ consistent' = versions(nodes)
    /\ served' = versions(nodes)
    /\ UNCHANGED <<current, previous, queried, best, result, pathset, passed,
                   rejected, fetched, fetches, hits, last, emitted, batches>>
    /\ UNCHANGED <<dbvars, covervars>>

\* check, lines 206-208: the next pathset of the generator, then the budget;
\* the function's end (None) when the generator is exhausted.
check_next ==
    /\ pc = "c_for"
    /\ \E out \in indicators_next(nodes, ind) :
          /\ ind' = out.ind
          /\ emitted' = emitted \cup Range(out.pathset)
          /\ batches' = IF out.stop THEN batches ELSE batches + 1
          /\ IF out.stop
             THEN /\ result' = None
                  /\ pc' = "done"
                  /\ UNCHANGED pathset
             ELSE IF budget_spent(tries, max_tries)
             THEN /\ result' = Some(FALSE)
                  /\ pc' = "done"
                  /\ UNCHANGED pathset
             ELSE /\ pathset' = out.pathset
                  /\ pc' = "c_path"
                  /\ UNCHANGED result
    /\ UNCHANGED <<op, current, previous, queried, best, tries, max_tries,
                   passed, rejected, fetched, fetches, hits, consistent, last,
                   served>>
    /\ UNCHANGED <<dbvars, covervars>>

\* check, lines 210-221: one path of the pathset.
check_path ==
    /\ pc = "c_path"
    /\ LET p == Head(pathset)
       IN \E ok \in FilterAnswers(p) :
          \E ans \in Answers :
             LET kind == KindOf(fingerprints, p, ok, ans)
             IN /\ Visit(p, ok, ans, kind)
                /\ pathset' = Tail(pathset)
                /\ tries' = IF kind \in {"status", "unknown"}
                            THEN tries + 1 ELSE tries
                /\ result' = IF kind = "match" THEN Some(TRUE) ELSE result
                /\ pc' = IF kind = "match" THEN "done"
                         ELSE IF kind = "error" THEN "raised"
                         ELSE IF Tail(pathset) = <<>> THEN "c_for"
                         ELSE "c_path"
    /\ UNCHANGED <<op, current, previous, queried, best, ind, max_tries,
                   emitted, batches>>
    /\ UNCHANGED <<dbvars, covervars>>

\* ------------------------------------------------------ ingestion: actions
\* The number of regular files in the archives of directory d.
files(d) == Cardinality(UNION {entries(v, d[v]) : v \in DOMAIN d})

Init ==
    /\ fingerprints = EmptyMap
    /\ nodes = EmptyMap
    /\ dir = EmptyMap
    /\ ingested = EmptyMap
    /\ outcome = "none"
    /\ failed = ""
    /\ reopened = FALSE
    /\ streak = 0
    /\ before = EmptyMap
    /\ ProbeIdle
    /\ CoverIdle

\* A reference archive is put in the corpus directory (release archives are
\* added, never rewritten).
put_archive ==
    \E v \in IngestVersions \ DOMAIN dir, a \in Archives :
        /\ files(dir) + Cardinality(DOMAIN a) <= MaxFiles
        /\ dir' = [x \in (DOMAIN dir) \cup {v} |-> IF x = v THEN a ELSE dir[x]]
        /\ outcome' = "none"
        /\ failed' = ""
        /\ reopened' = FALSE
        /\ streak' = 0
        /\ UNCHANGED <<fingerprints, nodes, ingested, before>>
        /\ UNCHANGED <<probevars, covervars>>

\* generate(path) reads every new archive and returns.
generate_ok ==
    LET new == new_versions(nodes, dir)
        db == generate(fingerprints, nodes, dir)
    IN /\ fingerprints' = db[1]
       /\ nodes' = db[2]
       /\ ingested' = [v \in (DOMAIN ingested) \cup new |->
                          IF v \in new THEN dir[v] ELSE ingested[v]]
       /\ outcome' = "ok"
       /\ failed' = ""
       /\ reopened' = (\E v \in new : v \in DOMAIN ingested /\ ingested[v] # EmptyMap)
       /\ streak' = IF streak < MaxStreak THEN streak + 1 ELSE streak
       /\ before' = nodes
       /\ UNCHANGED dir
       /\ UNCHANGED <<probevars, covervars>>

\* generate(path) raises out of tarfile while it reads the archive of fv.
generate_raise ==
    \E fv \in new_versions(nodes, dir) :
    \E done \in SUBSET (new_versions(nodes, dir) \ {fv}) :
    \E part \in SUBSET (DOMAIN dir[fv]) :
        LET db == generate_raised(fingerprints, nodes, dir, fv, done, part)
        IN /\ fingerprints' = db[1]
           /\ nodes' = db[2]
           /\ outcome' = "raised"
           /\ failed' = fv
           /\ reopened' = (\E v \in done \cup {fv} :
                             v \in DOMAIN ingested /\ ingested[v] # EmptyMap)
           /\ streak' = 0
           /\ before' = nodes
           /\ UNCHANGED <<dir, ingested>>
           /\ UNCHANGED <<probevars, covervars>>

Next == put_archive \/ generate_ok \/ generate_raise

vars == <<dbvars, probevars, covervars>>

Spec == Init /\ [][Next]_vars

\* ------------------------------------------------- probing: specification
\* The corpus directories of at most MaxFiles files.
Corpora == {d \in [Versions -> Archives] : files(d) <= MaxFiles}

\* A database that generate built from a corpus directory, nothing running.
InitProbe ==
    /\ \E d \in Corpora :
          /\ dir = d
          /\ ingested = d
          /\ fingerprints = generate(EmptyMap, EmptyMap, d)[1]
          /\ nodes = generate(EmptyMap, EmptyMap, d)[2]
    /\ outcome = "ok"
    /\ failed = ""
    /\ reopened = FALSE
    /\ streak = 1
    /\ before = EmptyMap
    /\ ProbeIdle
    /\ CoverIdle

NextProbe ==
    \/ guess_start
    \/ guess_select
    \/ guess_return
    \/ guess_path
    \/ check_start
    \/ check_next
    \/ check_path

SpecProbe == InitProbe /\ [][NextProbe]_vars

\* guess and check run in one thread that nothing suspends for ever: a step
\* that can be taken is taken.
SpecProbeFair == SpecProbe /\ WF_vars(NextProbe)

\* ------------------------------------------------ selection: specification
\* Databases of four versions, where a group can hold one, two or three of
\* the candidates: the files differ by where they are, not by what they hold.
SelectVersions == Versions \cup {"4.0"}
SelectArchives == {[p \in ps |-> X] : ps \in SUBSET Paths}
SelectCorpora == [SelectVersions -> SelectArchives]

InitSelect ==
    /\ \E d \in SelectCorpora :
          /\ dir = d
          /\ ingested = d
          /\ fingerprints = generate(EmptyMap, EmptyMap, d)[1]
          /\ nodes = generate(EmptyMap, EmptyMap, d)[2]
    /\ outcome = "ok"
    /\ failed = ""
    /\ reopened = FALSE
    /\ streak = 1
    /\ before = EmptyMap
    /\ ProbeIdle
    /\ CoverIdle

NextSelect ==
    \/ guess_start
    \/ guess_select
    \/ guess_return
    \/ guess_path

SpecSelect == InitSelect /\ [][NextSelect]_vars

\* --------------------------------------------------- cover: specification
\* minimal_cover is handed a collection of group keys; a key is the set of
\* the versions that have some path, so it holds a version (line 69).
InitCover ==
    /\ sets \in SUBSET ((SUBSET Versions) \ {{}})
    /\ cover = None
    /\ returned = FALSE
    /\ fingerprints = EmptyMap
    /\ nodes = EmptyMap
    /\ dir = EmptyMap
    /\ ingested = EmptyMap
    /\ outcome = "none"
    /\ failed = ""
    /\ reopened = FALSE
    /\ streak = 0
    /\ before = EmptyMap
    /\ ProbeIdle

\* minimal_cover(sets) returns.
cover_call ==
    /\ ~returned
    /\ cover' \in minimal_cover(sets)
    /\ returned' = TRUE
    /\ UNCHANGED <<sets, dbvars, probevars>>

NextCover == cover_call

SpecCover == InitCover /\ [][NextCover]_vars

\* ===================================================================== claims

\* No two versions of the database are byte-identical over all ingested paths.
NoTwins ==
    \A v, w \in versions(nodes) : v # w => ingested[v] # ingested[w]

\* guess returned having met no refused path and only answers true to v.
GuessDoneFor(v) ==
    /\ op = "guess"
    /\ pc = "done"
    /\ rejected = {}
    /\ v \in consistent

\* C1: narrowing convergence.  When no two versions are byte-identical, the
\* filter accepts every path and the target answers as version v does (200 with
\* v's bytes on v's paths, another status elsewhere), guess returns exactly {v}.
C1_Convergence ==
    \A v \in Versions : (NoTwins /\ GuessDoneFor(v)) => result = Some({v})

\* The corpus of the example: 1.0 = (a.txt=x, b.txt=y), 2.0 = (a.txt=x, b.txt=z).
ExampleCorpus(x, y, z) ==
    /\ ingested["1.0"] = [p \in {a_txt, b_txt} |-> IF p = a_txt THEN x ELSE y]
    /\ ingested["2.0"] = [p \in {a_txt, b_txt} |-> IF p = a_txt THEN x ELSE z]
    /\ ingested["3.0"] = EmptyMap

\* C2: versions with the same paths that differ in one path's content are told
\* apart: on the database of 1.0 (a.txt=x, b.txt=y) and 2.0 (a.txt=x, b.txt=z),
\* guess against a target serving 2.0's files returns {2.0}.
C2_SamePathsToldApart ==
    \A x, y, z \in Contents :
        (y # z /\ ExampleCorpus(x, y, z) /\ GuessDoneFor("2.0"))
            => result = Some({"2.0"})

\* C3: detection soundness and short-circuit.  check returns True only at a
\* visit answered 200 whose body's fingerprint is a key of fingerprints; a
\* fetch answered 200 with a known (path, content) pair is the last visit of
\* the run and makes check return True at once; a run that returns without
\* such a fetch returns False or None, "not detected".
C3_DetectionSound ==
    op = "check" =>
        /\ (pc = "done" /\ result = Some(TRUE)) =>
              /\ last.kind = "match"
              /\ last.status = 200
              /\ content_hash(last.path, last.body) \in DOMAIN fingerprints
        /\ hits >= 1 =>
              /\ hits = 1
              /\ pc = "done"
              /\ result = Some(TRUE)
              /\ last.status = 200
              /\ KnownPair(last.path, last.body)
        /\ (pc = "done" /\ hits = 0) => result \in {Some(FALSE), None}

\* check detected at its third fetch, after two that did not match.
C3_Witness ==
    /\ op = "check"
    /\ pc = "done"
    /\ result = Some(TRUE)
    /\ fetches = 3

\* C4: probe budget.  From the moment the probe counter exceeds max_tries,
\* check issues no fetch (the rest of the batch included) and does not detect.
C4_BudgetStops ==
    [][(op = "check" /\ tries > max_tries) =>
          /\ fetches' = fetches
          /\ (pc' = "done" => result' # Some(TRUE))]_vars

\* The paths of the files read by calls of generate that returned.
IngestedPaths == UNION {DOMAIN ingested[v] : v \in DOMAIN ingested}

\* C5: partition invariant.  After any sequence of generate calls every ingested
\* path is in exactly one group, whose key is the set of the versions whose
\* archive has a file at that path.
C5_Partition ==
    \A p \in IngestedPaths :
        /\ Cardinality({vs \in DOMAIN nodes : p \in nodes[vs]}) = 1
        /\ \A vs \in DOMAIN nodes :
              p \in nodes[vs] =>
                  vs = {v \in DOMAIN ingested : p \in DOMAIN ingested[v]}

\* Two calls built three groups: a path of both versions and a path of each.
C5_Witness ==
    /\ outcome = "ok"
    /\ DOMAIN nodes = {{"1.0", "2.0"}, {"1.0"}, {"2.0"}}
    /\ fingerprints # EmptyMap

\* The collection a returned cover stands for (None: no set).
CoverSets == IF cover = None THEN {} ELSE cover[1]

\* C6: cover completeness.  The cover minimal_cover returns for a collection S
\* of version sets is a sub-collection of S whose union is the union of S, and
\* it is non-empty for every non-empty S.
C6_CoverComplete ==
    returned =>
        /\ CoverSets \subseteq sets
        /\ UNION CoverSets = UNION sets
        /\ sets # {} => CoverSets # {}

\* A cover of two sets that leaves out sets of the collection.
C6_Witness ==
    /\ returned
    /\ Cardinality(sets) >= 4
    /\ Cardinality(CoverSets) = 2

\* C7: ingestion atomicity.  When generate raises while reading a version's
\* archive, that version is in no value set of fingerprints and in no key of
\* nodes, and what the maps held for the versions ingested before is unchanged.
C7_Atomic ==
    [][outcome' = "raised" =>
          /\ \A f \in DOMAIN fingerprints' : failed' \notin fingerprints'[f]
          /\ \A vs \in DOMAIN nodes' : failed' \notin vs
          /\ nodes' = nodes
          /\ \A v \in versions(nodes) :
                {f \in DOMAIN fingerprints' : v \in fingerprints'[f]}
                    = {f \in DOMAIN fingerprints : v \in fingerprints[f]}]_vars

\* C8: fetch failures are not escalated.  A fetch that ends in a status other
\* than 200, a connection error or a timeout leaves the candidate set and the
\* result as they were, and guess or check goes on with the next path or group.
C8_NotEscalated ==
    [][(fetches' = fetches + 1 /\ last'.kind \in {"status", "error"}) =>
          /\ pc' \in {"g_for", "g_while", "c_path", "c_for"}
          /\ current' = current
          /\ previous' = previous
          /\ result' = result]_vars

\* C9: contradiction fallback.  A narrowing step that empties the candidate set
\* leaves in `previous` the non-empty set held just before it and does not
\* raise, and guess then returns that set, never the empty set.
C9_Fallback ==
    /\ [][(op = "guess" /\ current # {} /\ current' = {}) =>
             /\ previous' = Some(current)
             /\ pc' = "g_while"]_vars
    /\ [](op = "guess" /\ pc = "done" /\ current = {} /\ previous # None =>
             /\ result = previous
             /\ result[1] # {})

\* guess returned `previous` after a fingerprint of none of the candidates.
C9_Witness ==
    /\ op = "guess"
    /\ pc = "done"
    /\ current = {}
    /\ last.kind = "match"
    /\ result = previous
    /\ Cardinality(result[1]) >= 2

\* C10: idempotent ingestion.  A call of generate on the directory that the
\* call before it read and returned from leaves fingerprints and nodes as they
\* were, and no call opens the archive of a version already present.
C10_Idempotent ==
    /\ [][(streak >= 1 /\ streak' = streak + 1) =>
             /\ fingerprints' = fingerprints
             /\ nodes' = nodes]_vars
    /\ [](~reopened)

\* generate returned twice on a directory of two versions with files.
C10_Witness ==
    /\ streak = 2
    /\ versions(nodes) = {"1.0", "2.0"}
    /\ Cardinality(DOMAIN fingerprints) >= 2

\* C11: incremental ingestion equals full rebuild.  Whenever generate returns,
\* after whatever calls came before on the smaller directory, fingerprints and
\* nodes are the maps one call on the whole directory builds from an empty
\* database, also where a new version joins a path that was already grouped.
C11_IncrementalIsRebuild ==
    outcome = "ok" =>
        /\ fingerprints = generate(EmptyMap, EmptyMap, dir)[1]
        /\ nodes = generate(EmptyMap, EmptyMap, dir)[2]

\* The second call moved a path grouped under one version to the group of both.
C11_Witness ==
    /\ outcome = "ok"
    /\ \E p \in Paths :
          /\ {"1.0"} \in DOMAIN before /\ p \in before[{"1.0"}]
          /\ {"1.0", "2.0"} \in DOMAIN nodes /\ p \in nodes[{"1.0", "2.0"}]
    /\ \E q \in Paths : {"1.0"} \in DOMAIN nodes /\ q \in nodes[{"1.0"}]

\* C12: empty database.  On a database without versions guess and check return
\* at once, with None ("no answer"), after no fetch and without an exception.
C12_EmptyDatabase ==
    /\ [](versions(nodes) = {} =>
             /\ fetches = 0
             /\ pc \notin {"raised", "g_for", "c_path"}
             /\ (pc = "done" => result = None))
    /\ [][(versions(nodes) = {} /\ pc \in {"g_while", "c_for"}) =>
             pc' = "done"]_vars
    /\ <>(versions(nodes) = {} => pc = "done")

\* guess returned None on the database of a directory without files.
C12_Witness ==
    /\ nodes = EmptyMap
    /\ fingerprints = EmptyMap
    /\ op = "guess"
    /\ pc = "done"
    /\ result = None

\* C13: path filter.  A path url_filter refuses is not fetched and does not
\* move check's probe counter; when url_filter refuses every path, guess and
\* check end without an exception and without a fetch, check not detecting
\* and guess returning all the versions of the database.
C13_PathFilter ==
    /\ [](fetched \cap rejected = {})
    /\ [][rejected' # rejected =>
             /\ fetches' = fetches
             /\ tries' = tries
             /\ pc' # "raised"]_vars
    /\ [](passed = {} =>
             /\ fetches = 0
             /\ pc # "raised"
             /\ (op = "check" /\ pc = "done") => result # Some(TRUE)
             /\ (op = "guess" /\ pc = "done" /\ versions(nodes) # {}) =>
                   result = Some(versions(nodes)))
    /\ <>(passed # {} \/ pc = "done")

\* guess returned all three versions after url_filter refused every path.
C13_Witness ==
    /\ op = "guess"
    /\ pc = "done"
    /\ passed = {}
    /\ Cardinality(rejected) >= 2
    /\ Cardinality(versions(nodes)) = 3
    /\ result = Some(versions(nodes))

\* check ended undetected after url_filter refused every path of a pathset.
C13_WitnessCheck ==
    /\ op = "check"
    /\ pc = "done"
    /\ passed = {}
    /\ Cardinality(rejected) >= 2
    /\ result = None

\* The versions of the groups that rounds before the generator's present one
\* took out of `versions`.
CoveredEarlier == UNION ((DOMAIN nodes) \ ind.versions)

\* C14: the generator takes the member versions of a round's cover out of what
\* remains, so the cover of a later round holds no group with a version that
\* an earlier round covered, and no round follows one that covered them all.
C14_MemberVersionsRemoved ==
    op = "check" =>
        \A k \in Range(ind.cover) : k \cap CoveredEarlier = {}

\* All the paths of the database.
AllPaths == UNION {nodes[vs] : vs \in DOMAIN nodes}

\* The least number of paths among the groups of cover c.
MinSize(c) ==
    CHOOSE n \in 0..Cardinality(AllPaths) :
        /\ \A i \in DOMAIN c : n <= Cardinality(nodes[c[i]])
        /\ \E i \in DOMAIN c : n = Cardinality(nodes[c[i]])

\* C15: the generator is finite and repeats no path.  A pathset holds one path
\* of every group of the round's cover, none of them yielded before; a round
\* yields as many pathsets as its smallest group has paths; a group whose
\* paths were yielded is in the present round or gone from `versions`; and
\* check, which drains the generator, ends.
C15_FiniteNoRepeat ==
    /\ [][batches' = batches + 1 =>
             /\ Cardinality(emitted' \ emitted) = Len(ind'.cover)
             /\ \A i \in DOMAIN ind'.cover :
                   Cardinality((emitted' \ emitted) \cap nodes[ind'.cover[i]]) = 1]_vars
    /\ [][(op = "check" /\ ind.cover # <<>> /\ ind'.cover # ind.cover) =>
             \A i \in DOMAIN ind.cover :
                 Cardinality(nodes[ind.cover[i]] \cap emitted) = MinSize(ind.cover)]_vars
    /\ [](op = "check" =>
             /\ Range(ind.cover) \subseteq ind.versions
             /\ \A vs \in DOMAIN nodes :
                   nodes[vs] \cap emitted # {} =>
                       vs \in Range(ind.cover) \/ vs \notin ind.versions
             /\ batches <= Cardinality(AllPaths))
    /\ [](op = "check" => <>(pc \in {"done", "raised"}))

\* check drained the generator: a round of one group, then a round of two.
C15_Witness ==
    /\ op = "check"
    /\ pc = "done"
    /\ result = None
    /\ batches = 2
    /\ Cardinality(emitted) = 3

\* check drained the generator, which left a path of the larger group unused.
C15_WitnessUnused ==
    /\ op = "check"
    /\ pc = "done"
    /\ result = None
    /\ batches = 1
    /\ Cardinality(emitted) = 2
    /\ Cardinality(AllPaths) = 3

\* C16: guess terminates.  Every pass of the outer loop picks a group with a
\* path that is not in queried and every path it walks joins queried; no path
\* is fetched twice, the fetches are at most the paths of the database, and
\* every run ends, whatever the target answers and the filter decides.
C16_GuessTerminates ==
    /\ [][(op = "guess" /\ pc = "g_for") =>
             (queried \subseteq queried' /\ queried' # queried)]_vars
    /\ [](op = "guess" =>
             /\ pc = "g_for" => nodes[best] \ queried # {}
             /\ fetched \subseteq queried
             /\ fetches = Cardinality(fetched)
             /\ fetches <= Cardinality(AllPaths))
    /\ [](op = "guess" => <>(pc \in {"done", "raised"}))

\* guess returned after it fetched every one of the three paths of the database.
C16_Witness ==
    /\ op = "guess"
    /\ pc = "done"
    /\ Cardinality(AllPaths) = 3
    /\ fetches = 3
    /\ rejected = {}

\* |1/2 - |g \cap cur| / |cur||, scaled by 2|cur|.
Dist(g, cur) ==
    LET n == Cardinality(cur)
        k == Cardinality(g \cap cur)
    IN IF n >= 2 * k THEN n - 2 * k ELSE 2 * k - n

\* Group g shares a version with cur, does not hold all of cur and has a path
\* that is not in q.
Selectable(g, cur, q) ==
    /\ g \in DOMAIN nodes
    /\ g \cap cur # {}
    /\ ~(cur \subseteq g)
    /\ nodes[g] \ q # {}

\* C17: group selection.  The group guess selects shares a version with
\* current, does not hold all of current, has a path that is not queried and
\* is as close to half of current as any group of which the three hold; every
\* path guess fetches is a path of the group selected last.
C17_GroupSelection ==
    /\ [][(op = "guess" /\ pc = "g_while" /\ pc' = "g_for") =>
             /\ Selectable(best', current, queried)
             /\ \A g \in DOMAIN nodes :
                   Selectable(g, current, queried) =>
                       Dist(best', current) <= Dist(g, current)]_vars
    /\ [][(op = "guess" /\ fetches' = fetches + 1) =>
             /\ pc = "g_for"
             /\ last'.path \in nodes[best]
             /\ best' = best]_vars

\* guess fetched a path of a group of two of the four candidates although a
\* group of one or three of them could have been selected.
C17_Witness ==
    /\ op = "guess"
    /\ Cardinality(current) = 4
    /\ fetches = 1
    /\ last.path \in nodes[best]
    /\ Dist(best, current) = 0
    /\ \E g \in DOMAIN nodes :
          Selectable(g, current, {}) /\ Dist(g, current) = 2

\* C18: the true version is never ruled out.  While every 200 answer of the
\* target carried the bytes that version v of the database has at the path
\* asked for, v is in current, and v is in the set guess returns.
C18_TrueVersionKept ==
    op = "guess" =>
        \A v \in versions(nodes) \cap served :
            /\ v \in current
            /\ pc = "done" => (result # None /\ v \in result[1])

\* guess returned {v} for a target that answered v's bytes with 200 at two
\* paths and failed to serve another of v's files.
C18_Witness ==
    /\ op = "guess"
    /\ pc = "done"
    /\ fetches = 3
    /\ Cardinality(versions(nodes)) = 3
    /\ \E v \in served : v \notin consistent /\ result = Some({v})

\* The versions under the fingerprint of a path and a content are versions of
\* the key of the path's group.
FingerprintsWithinKeys ==
    \A vs \in DOMAIN nodes : \A p \in nodes[vs] : \A c \in Contents :
        content_hash(p, c) \in DOMAIN fingerprints =>
            fingerprints[content_hash(p, c)] \subseteq vs

\* C19: every narrowing step strictly shrinks the candidate set.  In a database
\* that generate built, fingerprints[hash(p, c)] is within the key of p's
\* group, and each time guess executes line 145 the new current is a proper
\* subset of the old one, which is kept in previous.
C19_NarrowingShrinks ==
    /\ [](FingerprintsWithinKeys)
    /\ [][(op = "guess" /\ fetches' = fetches + 1 /\ last'.kind = "match") =>
             /\ current' \subseteq current
             /\ current' # current
             /\ previous' = Some(current)]_vars

\* A fingerprint of two of the three candidates narrowed current to the two.
C19_Witness ==
    /\ op = "guess"
    /\ pc = "g_while"
    /\ last.kind = "match"
    /\ previous # None
    /\ Cardinality(previous[1]) = 3
    /\ Cardinality(current) = 2

\* check runs with a filter that accepted every path so far against a target
\* whose answers so far are those of a version of the database.
ServesAVersion ==
    /\ op = "check"
    /\ rejected = {}
    /\ versions(nodes) \cap consistent # {}

\* C20: detection completeness.  With a filter that accepts every path and a
\* target that serves the files of a version of the database byte for byte
\* (200 on its paths, another status elsewhere), check returns True, whatever
\* max_tries is, and does so before the generator is asked for a second pathset.
C20_DetectionComplete ==
    /\ [](ServesAVersion =>
             /\ batches <= 1
             /\ pc # "raised"
             /\ pc = "done" => result = Some(TRUE))
    /\ [](ServesAVersion => <>(pc = "done" \/ ~ServesAVersion))

\* check with max_tries = 0 detected at the second path of the first pathset,
\* after the first path, which the version served does not have, was answered 404.
C20_Witness ==
    /\ ServesAVersion
    /\ pc = "done"
    /\ result = Some(TRUE)
    /\ max_tries = 0
    /\ tries = 1
    /\ fetches = 2
    /\ batches = 1

====
